---- MODULE Spec2Model ----
(***************************************************************************)
(* Model of the lumen daily-edition service: the publish workflow          *)
(* (src/src/app/api/publish/route.ts), the seven content adapters          *)
(* (src/src/app/api/*/route.ts), the DailyContent collection               *)
(* (src/src/models/DailyContent.ts), the IST date key                      *)
(* (src/src/lib/ist-utils.ts), login and the authorization guard           *)
(* (src/src/app/api/auth/login/route.ts), the read endpoints latest-date   *)
(* and calendar, and the connection cache (src/src/lib/mongodb.ts).        *)
(*                                                                         *)
(* Texts are strings.  A text that comes from outside (a headline typed by *)
(* the administrator, a fact served by an upstream source, the bytes of an *)
(* uploaded photo) is tagged with the number of the publish request that   *)
(* carried it, so that the content of two publishes can be told apart.     *)
(***************************************************************************)
EXTENDS Integers, Sequences, FiniteSets, TLC

(* ------------------------------ bounds --------------------------------- *)
NumReqs == 2
NumDates == 2
MaxPublishes == 3
MaxFaults == 1
MaxEntries == 3
MaxLogins == 2
MaxTicks == 3
NumCallers == 3
MaxAttempts == 3
MaxRetries == 10
MaxReloads == 1
NumCalDays == 3
MaxFetches == 3

Reqs == 1..NumReqs
Days == 1..NumDates

(* --------------------------- program constants -------------------------- *)
MinutesPerDay == 24 * 60
ISTOffset == 330
TokenTTL == 7 * MinutesPerDay

\* The zones a server may run in, as minutes east of UTC (US Pacific, UTC,
\* India, Japan), and the instants looked at: the days Days at midnight UTC,
\* just before and at midnight IST, at noon and in the evening UTC.
Offsets == {0 - 480, 0, 330, 540}
TimesOfDay == {0, 18 * 60 + 29, 18 * 60 + 30, 12 * 60, 21 * 60}
Instants == {day * MinutesPerDay + m : day \in 1..NumDates, m \in TimesOfDay}

Undefined == "<undefined>"
Null == "<null>"
Falsy(x) == x \in {Undefined, Null, ""}

Adapters == {"poem", "joke", "activity", "catFact", "dogFact", "triviaFact", "comic"}

VARIABLES
  serverTz,       \* offset of the server's local time zone from UTC, minutes
  now,            \* the current instant, minutes since the epoch
  adminPassword,  \* process.env.ADMIN_PASSWORD, Undefined when not configured
  cached,         \* lib/mongodb.ts: the cached connection handle
  docs,           \* the DailyContent collection: a set of documents
  nextId,         \* the next _id the collection hands out
  started,        \* number of publish requests received so far
  faults,         \* number of upstream faults injected so far
  req,            \* the publish requests in flight, one record per slot
  lastGet,        \* the last direct call of an adapter endpoint and its answer
  comicGet,       \* the last page served to GET /api/comic and the answer given
  dateCall,       \* the last call of the date normalization and its result
  auth,           \* login and guard: tokens issued, clock ticks, last answers
  reader,         \* the last call of a read endpoint and its answer
  dbc,            \* dbConnect: the connection attempts and the callers awaiting them
  compress,       \* publish page: the client-side compression of the chosen photo
  globalMongoose, \* lib/mongodb.ts: global.mongoose, the only state a reload keeps
  calPage,        \* calendar page: the month's data and the preloading of its images
  home            \* home page: the selected date, its fetches and the edition shown

\* The state of the pages and of the process across reloads.
aux2 == <<compress, globalMongoose, calPage, home>>

\* The state of the endpoints and functions that are exercised on their own.
aux == <<comicGet, dateCall, auth, reader, dbc, aux2>>

vars == <<serverTz, now, adminPassword, cached, docs, nextId, started, faults, req, lastGet, aux>>
env == <<serverTz, now, adminPassword>>

(* ------------------------------ ist-utils ------------------------------ *)
\* new Date("YYYY-MM-DD"): a date-only string is midnight UTC of that day.
ParseDateOnly(day) == day * MinutesPerDay

\* toLocaleString in Asia/Kolkata gives the IST wall clock; new Date(string)
\* reads that wall clock back in the server's own zone.
getISTDate(t) == (t + ISTOffset) - serverTz

\* toISOString().split("T")[0]: the UTC calendar day of the shifted instant.
getISTDateString(t) == getISTDate(t) \div MinutesPerDay

(* ------------------------------- tokens -------------------------------- *)
\* An Authorization header.  For a header that carries a well-formed JWT:
\* the secret it was signed with, its exp claim, whether its payload has an
\* "admin" property and whether the value of that property is true.
NoHeader ==
  [scheme |-> "none", wellFormed |-> FALSE, secret |-> "", exp |-> 0,
   hasAdmin |-> FALSE, adminIs |-> FALSE]

Token(secret, exp, admin) ==
  [scheme |-> "Bearer", wellFormed |-> TRUE, secret |-> secret, exp |-> exp,
   hasAdmin |-> admin, adminIs |-> admin]

\* The Authorization headers a client may present.
Headers ==
  { NoHeader,
    [NoHeader EXCEPT !.scheme = "Basic"],
    [NoHeader EXCEPT !.scheme = "Bearer"],
    Token("s1", now + TokenTTL, TRUE),
    Token("s1", now + TokenTTL, FALSE),
    Token("s1", now, TRUE),
    Token("other", now + TokenTTL, TRUE) }

\* jwt.verify: throws on a malformed token, a bad signature or an expired one.
jwtVerifies(h, secret) == h.wellFormed /\ h.secret = secret /\ now < h.exp

\* Variant: a guard that verifies the signature but ignores the expiry.
verifyAdminAccessNoExpiry(h) ==
  /\ h.scheme = "Bearer"
  /\ ~Falsy(adminPassword)
  /\ h.wellFormed /\ h.secret = adminPassword
  /\ h.hasAdmin

\* verifyAdminAccess: a Bearer header, a configured secret, a token that
\* verifies under it and carries the "admin" property; false otherwise.
verifyAdminAccess(h) ==
  /\ h.scheme = "Bearer"
  /\ ~Falsy(adminPassword)
  /\ jwtVerifies(h, adminPassword)
  /\ h.hasAdmin

(* ------------------------------ adapters ------------------------------- *)
\* What a third-party source may answer to one request of an adapter:
\*   ok          2xx with a well-formed payload
\*   unreachable the request fails (network error)
\*   non2xx      an answer whose status is not 2xx
\*   malformed   2xx with a body that does not parse (or an empty result list)
\*   missing     2xx with a parsable body that lacks the field the adapter reads
FaultKinds == {"unreachable", "non2xx", "malformed", "missing"}
Upstream == {"ok"} \cup FaultKinds

\* A text served by an upstream source to publish number n.
Up(prefix, n) == prefix \o ToString(n)

\* String.prototype.toLowerCase on the activity texts of the model.
toLowerCase(s) ==
  IF \E n \in 0..MaxPublishes : s = Up("Act", n)
  THEN Up("act", CHOOSE n \in 0..MaxPublishes : s = Up("Act", n))
  ELSE s

\* line.replace(/_/g, "").replace(/--/g, "-") on the poem lines of the model.
cleanedLines(s) ==
  IF \E n \in 0..MaxPublishes : s = Up("_li--ne", n)
  THEN Up("li-ne", CHOOSE n \in 0..MaxPublishes : s = Up("_li--ne", n))
  ELSE s

PoemFallback == [title |-> "Silence", author |-> "Unknown", lines |-> "In quiet moments"]
JokeFallback ==
  [type |-> "single",
   joke |-> "Why don't scientists trust atoms? Because they make up everything!",
   setup |-> Undefined, delivery |-> Undefined]
ActivityFallback == [activity |-> "take a moment to breathe and relax"]
CatFallback == [fact |-> "Cats sleep for 70% of their lives, which is 13-16 hours a day."]
DogFallback == [fact |-> "Dogs have about 300 million olfactory receptors in their noses, compared to about 6 million in humans."]
TriviaFallback == [fact |-> "Honey never spoils. Archaeologists have found edible honey in ancient Egyptian tombs."]
ComicFallback == [imageUrl |-> Null, altText |-> "Unable to load comic"]

Answer(status, body) == [status |-> status, body |-> body]

\* GET /api/poem
PoemRoute(u, n) ==
  CASE u = "ok" ->
         Answer(200, [title |-> Up("title", n), author |-> Up("author", n),
                      lines |-> cleanedLines(Up("_li--ne", n))])
    [] u = "missing" ->
         Answer(200, [title |-> Undefined, author |-> Up("author", n),
                      lines |-> cleanedLines(Up("_li--ne", n))])
    [] OTHER -> Answer(500, PoemFallback)

\* GET /api/joke: the parsed upstream body is passed through as it is (here
\* a two-part joke, or a JSON object that is no joke at all).
JokeRoute(u, n) ==
  CASE u = "ok" ->
         Answer(200, [type |-> "twopart", joke |-> Undefined,
                      setup |-> Up("setup", n), delivery |-> Up("delivery", n)])
    [] u = "missing" ->
         Answer(200, [type |-> Undefined, joke |-> Undefined,
                      setup |-> Undefined, delivery |-> Undefined])
    [] OTHER -> Answer(500, JokeFallback)

\* GET /api/activity: data.activity.toLowerCase() throws when the field is absent.
ActivityRoute(u, n) ==
  CASE u = "ok" -> Answer(200, [activity |-> toLowerCase(Up("Act", n))])
    [] OTHER -> Answer(500, ActivityFallback)

\* GET /api/cat-fact
CatFactRoute(u, n) ==
  CASE u = "ok" -> Answer(200, [fact |-> Up("cat", n)])
    [] u = "missing" -> Answer(200, [fact |-> Undefined])
    [] OTHER -> Answer(500, CatFallback)

\* GET /api/dog-fact: "missing" is an entry without attributes.body.
DogFactRoute(u, n) ==
  CASE u = "ok" -> Answer(200, [fact |-> Up("dog", n)])
    [] u = "missing" -> Answer(200, [fact |-> Undefined])
    [] OTHER -> Answer(500, DogFallback)

\* GET /api/trivia-fact
TriviaFactRoute(u, n) ==
  CASE u = "ok" -> Answer(200, [fact |-> Up("trivia", n)])
    [] u = "missing" -> Answer(200, [fact |-> Undefined])
    [] OTHER -> Answer(500, TriviaFallback)

(* ------------------------------ GET /api/comic -------------------------- *)
\* new Date().toLocaleDateString("en-US", ...): the calendar day of instant t
\* in the server's own zone, written out in long form.
LocalDay(t) == (t + serverTz) \div MinutesPerDay

\* One <script type="application/ld+json"> element of the page.  json says
\* what its text is: "object" (a JSON object with the fields below), "null"
\* (JSON null), "invalid" (JSON.parse throws) or "empty" (no text at all).
Entry(json, type, url, date, name, description) ==
  [json |-> json, type |-> type, contentUrl |-> url, datePublished |-> date,
   name |-> name, description |-> description]

ImageEntry(date, url, name) == Entry("object", "ImageObject", url, date, name, Undefined)

\* The entries a page of the model is made of: images of today, of
\* yesterday and of the day before, with and without a URL or a name, an
\* entry of another type, and a script that does not parse.
PageEntries ==
  LET today == LocalDay(now)
  IN  { ImageEntry(today, "t1", "today one"),
        Entry("object", "ImageObject", "t2", today, Undefined, "today two"),
        ImageEntry(today - 1, "y1", "yesterday one"),
        ImageEntry(today - 1, "y2", Undefined),
        ImageEntry(today - 2, "o1", "older"),
        ImageEntry(today, Undefined, "no url"),
        Entry("object", "WebPage", "w1", today, "page", Undefined),
        Entry("invalid", "", "", 0, "", "") }

NoComic == [imageUrl |-> Null, altText |-> Null]

\* data.name || data.description || ""
AltTextOf(e) ==
  IF ~Falsy(e.name) THEN e.name
  ELSE IF ~Falsy(e.description) THEN e.description ELSE ""

\* Variant: the first dated image found is kept, today's or yesterday's.
visitEntryKeepsFirst(acc, e, today) ==
  IF e.json # "object" THEN acc
  ELSE IF /\ Falsy(acc.imageUrl) /\ e.type = "ImageObject" /\ ~Falsy(e.contentUrl)
          /\ e.datePublished \in {today, today - 1}
       THEN [imageUrl |-> e.contentUrl, altText |-> AltTextOf(e)]
       ELSE acc

\* GET, lines 62-111: the body of the loop over the script elements.  A
\* script without text is skipped; a parse error (or JSON null, whose
\* property access throws) is caught and ignored; an image of today is taken
\* whatever was found before, an image of yesterday only if nothing was.

visitEntry(acc, e, today) ==
  IF e.json # "object" THEN acc
  ELSE IF /\ e.type = "ImageObject" /\ ~Falsy(e.contentUrl)
          /\ e.datePublished = today
       THEN [imageUrl |-> e.contentUrl, altText |-> AltTextOf(e)]
       ELSE IF /\ Falsy(acc.imageUrl)
               /\ e.type = "ImageObject" /\ ~Falsy(e.contentUrl)
               /\ e.datePublished = today - 1
            THEN [imageUrl |-> e.contentUrl, altText |-> AltTextOf(e)]
            ELSE acc

\* specificStructure.each(...): the entries are visited in document order.
RECURSIVE scanEntries(_, _, _)
scanEntries(acc, page, today) ==
  IF page = <<>> THEN acc
  ELSE scanEntries(visitEntry(acc, Head(page), today), Tail(page), today)

\* GET /api/comic for a page that was fetched with a 2xx status: the comic
\* found, or the catch block's answer when none was.
comicGET(page) ==
  LET found == scanEntries(NoComic, page, LocalDay(now))
  IN  IF ~Falsy(found.imageUrl) THEN Answer(200, found) ELSE Answer(500, ComicFallback)

\* GET /api/comic as the publish fan-out sees it: the source serves today's
\* comic, or a page without a usable entry, or no page at all.
ComicRoute(u, n) ==
  CASE u = "ok" -> comicGET(<<ImageEntry(LocalDay(now), Up("url", n), Up("alt", n))>>)
    [] u \in {"malformed", "missing"} -> comicGET(<<>>)
    [] OTHER -> Answer(500, ComicFallback)

Route(a, u, n) ==
  CASE a = "poem" -> PoemRoute(u, n)
    [] a = "joke" -> JokeRoute(u, n)
    [] a = "activity" -> ActivityRoute(u, n)
    [] a = "catFact" -> CatFactRoute(u, n)
    [] a = "dogFact" -> DogFactRoute(u, n)
    [] a = "triviaFact" -> TriviaFactRoute(u, n)
    [] a = "comic" -> ComicRoute(u, n)

\* The fallback each adapter documents.
Fallback(a) ==
  CASE a = "poem" -> PoemFallback
    [] a = "joke" -> JokeFallback
    [] a = "activity" -> ActivityFallback
    [] a = "catFact" -> CatFallback
    [] a = "dogFact" -> DogFallback
    [] a = "triviaFact" -> TriviaFallback
    [] a = "comic" -> ComicFallback

\* fetchAllContent: fetch(...).then(res => res.json()) takes the body of the
\* answer whatever its status; only a rejected fetch (the server cannot reach
\* its own endpoint, "selfDown") gets the fallback written in fetchAllContent.
Settled(a, u, n) == IF u = "selfDown" THEN Fallback(a) ELSE Route(a, u, n).body

\* Variant: with Promise.all in place of Promise.allSettled, so that one
\* rejected request leaves every adapter with its fallback.
fetchAllContentAll(up, n) ==
  IF \E a \in Adapters : up[a] = "selfDown"
    THEN [a \in Adapters |-> Fallback(a)]
    ELSE [a \in Adapters |-> Settled(a, up[a], n)]

fetchAllContent(up, n) == [a \in Adapters |-> Settled(a, up[a], n)]

\* One upstream outcome per adapter, all ok except on the set F.
Outcomes(F, kind) == [a \in Adapters |-> IF a \in F THEN kind[a] ELSE "ok"]

(* --------------------------- image compressor --------------------------- *)
NoFile == "<no file>"

\* A file part without content: a File object (truthy) of zero bytes.
EmptyBuffer == "<empty buffer>"

\* The bytes uploaded with publish number n: an image sharp can decode, or
\* no bytes at all, which sharp cannot decode.
Uploads(n) == {Up("img", n), EmptyBuffer}
Decodable(buffer) == \E n \in 0..MaxPublishes : buffer = Up("img", n)

\* compressImage: the JPEG sharp produces, or the input when sharp throws.
compressImage(buffer) == IF Decodable(buffer) THEN "jpeg:" \o buffer ELSE buffer

(* --------------------------- DailyContent store ------------------------- *)
\* Mongoose "required": undefined, null and the empty string are rejected.
Required(x) == ~Falsy(x)

\* "required" on a Buffer path also rejects a buffer of length zero.
RequiredBuffer(b) == b \notin {Undefined, Null, EmptyBuffer}

\* The validation new DailyContent(data).save() runs before the insert.
Validates(d) ==
  /\ Required(d.headline)
  /\ RequiredBuffer(d.photo.imageBlob) /\ Required(d.photo.label)
  /\ Required(d.poem.title) /\ Required(d.poem.author)
  /\ d.joke.type \in {"single", "twopart"}
  /\ Required(d.activity.activity)
  /\ Required(d.catFact.fact) /\ Required(d.dogFact.fact) /\ Required(d.triviaFact.fact)
  /\ Required(d.comic.imageUrl) /\ Required(d.comic.altText)

Matching(coll, date) == {d \in coll : d.date = date}

\* DailyContent.findOne({ date }): a matching document, or Null.
findOne(coll, date) ==
  IF Matching(coll, date) = {} THEN Null ELSE CHOOSE d \in Matching(coll, date) : TRUE

\* Variant: a collection without the unique index.
DuplicateKeyNoIndex(coll, date) == FALSE

\* The unique index on date (DailyContentSchema.date, unique: true) refuses
\* an insert for a date that already has a document.

DuplicateKey(coll, date) == Matching(coll, date) # {}

\* DailyContent.findOneAndUpdate({ date }, data): no upsert, no validators;
\* the matched document keeps its _id and takes every field of data.
\* Variant: an update that replaces the headline and photo only.
findOneAndUpdateKeepsContent(coll, date, data) ==
  IF Matching(coll, date) = {} THEN coll
  ELSE LET old == findOne(coll, date)
       IN  (coll \ {old}) \cup {[old EXCEPT !.headline = data.headline, !.photo = data.photo]}

findOneAndUpdate(coll, date, data) ==
  IF Matching(coll, date) = {} THEN coll
  ELSE LET old == findOne(coll, date)
       IN  (coll \ {old}) \cup {[data EXCEPT !.id = old.id]}

\* newContent.save(): "ok" and the new collection, or the error thrown.
save(coll, data, id) ==
  IF ~Validates(data) THEN [err |-> "ValidationError", coll |-> coll]
  ELSE IF DuplicateKey(coll, data.date) THEN [err |-> "DuplicateKey", coll |-> coll]
  ELSE [err |-> "ok", coll |-> coll \cup {[data EXCEPT !.id = id]}]

(* --------------------------- publish workflow --------------------------- *)
NoContent == [a \in Adapters |-> Fallback(a)]

IdleReq ==
  [pc |-> "idle", n |-> 0, authHeader |-> NoHeader, date |-> 0,
   headline |-> "", label |-> "", photoFile |-> NoFile,
   apiContent |-> NoContent, photoBlob |-> Undefined, existingContent |-> FALSE,
   status |-> 0, message |-> "", err |-> "",
   fetched |-> FALSE, dbReads |-> 0, dbWrites |-> 0]

InFlight(r) == req[r].pc \notin {"idle", "done"}

\* The response ends the request: what remains of it is the answer (status,
\* message, the error caught) and the record of what it did on the way.
Respond(q, status, message, err) ==
  [IdleReq EXCEPT !.pc = "done", !.status = status, !.message = message, !.err = err,
                  !.fetched = q.fetched, !.dbReads = q.dbReads, !.dbWrites = q.dbWrites]

\* A publish request arrives with its Authorization header.
Receive(r) ==
  /\ ~InFlight(r)
  /\ started < MaxPublishes
  /\ \E h \in Headers :
       req' = [req EXCEPT ![r] = [IdleReq EXCEPT !.pc = "auth", !.n = started + 1,
                                                !.authHeader = h]]
  /\ started' = started + 1
  /\ UNCHANGED <<env, cached, docs, nextId, faults, lastGet, aux>>

\* A publish request arrives while no other one is being handled.
ReceiveAlone(r) ==
  /\ \A q \in Reqs : ~InFlight(q)
  /\ Receive(r)

\* POST, lines 179-183: the authorization guard.
Authenticate(r) ==
  /\ req[r].pc = "auth"
  /\ req' = [req EXCEPT ![r] =
       IF verifyAdminAccess(req[r].authHeader)
       THEN [@ EXCEPT !.pc = "connect"]
       ELSE Respond(@, 401, "Unauthorized", "")]
  /\ UNCHANGED <<env, cached, docs, nextId, started, faults, lastGet, aux>>

\* POST, line 186: await dbConnect().  A cached connection is reused; else
\* a connection attempt is made, which the database may refuse.
Connect(r) ==
  /\ req[r].pc = "connect"
  /\ \/ /\ cached.conn
        /\ req' = [req EXCEPT ![r].pc = "parse"]
        /\ UNCHANGED cached
     \/ /\ ~cached.conn
        /\ cached' = [conn |-> TRUE, promise |-> TRUE]
        /\ req' = [req EXCEPT ![r].pc = "parse"]
     \/ /\ ~cached.conn
        /\ cached' = [conn |-> FALSE, promise |-> FALSE]
        /\ req' = [req EXCEPT ![r] = Respond(@, 500, "Failed to publish content", "connect")]
  /\ UNCHANGED <<env, docs, nextId, started, faults, lastGet, aux>>

\* Variant: !headline && !label
MissingFieldsBoth(headline, label) == Falsy(headline) /\ Falsy(label)

\* !headline || !label

MissingFields(headline, label) == Falsy(headline) \/ Falsy(label)

\* POST, lines 189-209: the form is read, the date normalized, the fields
\* validated; a valid request goes on to call fetchAllContent, which issues
\* the seven adapter requests.
Parse(r) ==
  /\ req[r].pc = "parse"
  /\ \E hasDate \in BOOLEAN, day \in Days,
        headline \in {"", Up("h", req[r].n)}, label \in {"", Up("l", req[r].n)},
        photoFile \in {NoFile} \cup Uploads(req[r].n) :
       LET date == IF hasDate THEN getISTDateString(ParseDateOnly(day))
                   ELSE getISTDateString(now)
           q == [req[r] EXCEPT !.date = date, !.headline = headline,
                               !.label = label, !.photoFile = photoFile]
       IN  req' = [req EXCEPT ![r] =
             IF MissingFields(headline, label)
             THEN Respond(q, 400, "Missing required fields", "")
             ELSE [q EXCEPT !.pc = "fetch", !.fetched = TRUE]]
  /\ UNCHANGED <<env, cached, docs, nextId, started, faults, lastGet, aux>>

\* POST, line 209: await fetchAllContent(): the seven adapter requests have
\* settled.  At most MaxFaults upstream faults are injected over a whole run.
Fetch(r) ==
  /\ req[r].pc = "fetch"
  /\ \E F \in SUBSET Adapters :
       /\ Cardinality(F) <= MaxFaults - faults
       /\ \E kind \in [F -> FaultKinds \cup {"selfDown"}] :
            req' = [req EXCEPT ![r].pc = "photo",
                     ![r].apiContent = fetchAllContent(Outcomes(F, kind), req[r].n)]
       /\ faults' = faults + Cardinality(F)
  /\ UNCHANGED <<env, cached, docs, nextId, started, lastGet, aux>>

\* POST, lines 212-229: the uploaded photo is compressed, or the photo of the
\* date's existing document is taken, or the request is rejected.
\* Variant: without the rejection of a first publish that has no photo.
resolvePhotoNoReject(q, coll) ==
  IF q.photoFile # NoFile
  THEN [q EXCEPT !.pc = "find", !.photoBlob = compressImage(q.photoFile)]
  ELSE [q EXCEPT !.pc = "find", !.dbReads = @ + 1,
                 !.photoBlob = IF Matching(coll, q.date) # {}
                               THEN findOne(coll, q.date).photo.imageBlob
                               ELSE Undefined]

\* Variant: a re-publish without a photo gets a placeholder image.
resolvePhotoPlaceholder(q, coll) ==
  IF q.photoFile # NoFile
  THEN [q EXCEPT !.pc = "find", !.photoBlob = compressImage(q.photoFile)]
  ELSE IF Matching(coll, q.date) # {}
       THEN [q EXCEPT !.pc = "find", !.dbReads = @ + 1, !.photoBlob = "placeholder"]
       ELSE Respond([q EXCEPT !.dbReads = @ + 1],
                    400, "Photo is required for new content", "")

\* POST, lines 212-229, as a function of the request and the collection.
resolvePhoto(q, coll) ==
  IF q.photoFile # NoFile
  THEN [q EXCEPT !.pc = "find", !.photoBlob = compressImage(q.photoFile)]
  ELSE IF /\ Matching(coll, q.date) # {}
          /\ findOne(coll, q.date).photo.imageBlob \notin {Undefined, Null}
       THEN [q EXCEPT !.pc = "find", !.dbReads = @ + 1,
                      !.photoBlob = findOne(coll, q.date).photo.imageBlob]
       ELSE Respond([q EXCEPT !.dbReads = @ + 1],
                    400, "Photo is required for new content", "")

ResolvePhoto(r) ==
  /\ req[r].pc = "photo"
  /\ req' = [req EXCEPT ![r] = resolvePhoto(req[r], docs)]
  /\ UNCHANGED <<env, cached, docs, nextId, started, faults, lastGet, aux>>

\* POST, lines 232-252
contentData(q) ==
  [id |-> 0, date |-> q.date, headline |-> q.headline,
   photo |-> [imageBlob |-> q.photoBlob, label |-> q.label],
   poem |-> q.apiContent["poem"], joke |-> q.apiContent["joke"],
   activity |-> q.apiContent["activity"], catFact |-> q.apiContent["catFact"],
   dogFact |-> q.apiContent["dogFact"], triviaFact |-> q.apiContent["triviaFact"],
   comic |-> [imageUrl |-> IF Falsy(q.apiContent["comic"].imageUrl) THEN ""
                           ELSE q.apiContent["comic"].imageUrl,
              altText |-> IF Falsy(q.apiContent["comic"].altText) THEN "Unable to load comic"
                          ELSE q.apiContent["comic"].altText]]

\* POST, line 255: const existingContent = await DailyContent.findOne({ date })
\* Variant: the lookup before the write never finds a document.
FindExistingNever(r) ==
  /\ req[r].pc = "find"
  /\ req' = [req EXCEPT ![r].pc = "write", ![r].dbReads = @ + 1,
                        ![r].existingContent = FALSE]
  /\ UNCHANGED <<env, cached, docs, nextId, started, faults, lastGet, aux>>

FindExisting(r) ==
  /\ req[r].pc = "find"
  /\ req' = [req EXCEPT ![r].pc = "write", ![r].dbReads = @ + 1,
                        ![r].existingContent = (Matching(docs, req[r].date) # {})]
  /\ UNCHANGED <<env, cached, docs, nextId, started, faults, lastGet, aux>>

\* POST, lines 257-270: update the existing document or insert a new one.
Persist(r) ==
  /\ req[r].pc = "write"
  /\ IF req[r].existingContent
     THEN /\ docs' = findOneAndUpdate(docs, req[r].date, contentData(req[r]))
          /\ req' = [req EXCEPT ![r] =
               Respond([@ EXCEPT !.dbWrites = @ + 1], 200, "Content updated", "")]
          /\ UNCHANGED nextId
     ELSE LET res == save(docs, contentData(req[r]), nextId)
          IN  /\ docs' = res.coll
              /\ nextId' = IF res.err = "ok" THEN nextId + 1 ELSE nextId
              /\ req' = [req EXCEPT ![r] =
                   IF res.err = "ok"
                   THEN Respond([@ EXCEPT !.dbWrites = @ + 1], 200, "Content published", "")
                   ELSE Respond(@, 500, "Failed to publish content", res.err)]
  /\ UNCHANGED <<env, cached, started, faults, lastGet, aux>>

(* ------------------------- adapter endpoints ---------------------------- *)
NoGet == [adapter |-> "", upstream |-> "", n |-> 0, status |-> 0]

\* GET /api/<adapter>, called directly by a client.
AdapterGet ==
  /\ \E a \in Adapters, u \in Upstream, n \in 1..MaxPublishes :
       lastGet' = [adapter |-> a, upstream |-> u, n |-> n,
                   status |-> Route(a, u, n).status, body |-> Route(a, u, n).body]
  /\ UNCHANGED <<env, cached, docs, nextId, started, faults, req, aux>>

\* GET /api/comic, called directly while the source serves some page.
NoComicGet == [called |-> FALSE, page |-> <<>>, status |-> 0, body |-> ComicFallback]

ComicGet ==
  /\ \E len \in 0..MaxEntries : \E page \in [1..len -> PageEntries] :
       comicGet' = [called |-> TRUE, page |-> page,
                    status |-> comicGET(page).status, body |-> comicGET(page).body]
  /\ UNCHANGED <<env, cached, docs, nextId, started, faults, req, lastGet, dateCall, auth, reader, dbc, aux2>>

(* ------------------------------- dbConnect ------------------------------ *)
\* The callers of dbConnect.  A caller is idle, or suspended in
\* "await cached.promise" on the attempt waitsOn, or done with the result
\* "conn" (a connection was returned) or "error" (the rejection was rethrown).
DbCallers == 1..NumCallers

IdleCaller == [pc |-> "idle", waitsOn |-> 0, result |-> ""]

\* attempts[a] is the state of the a-th mongoose.connect promise; promiseId
\* is the attempt cached.promise refers to, 0 when cached.promise is null.
\* reloads counts the re-evaluations of the module.
NoDbc ==
  [attempts |-> <<>>, promiseId |-> 0, reloads |-> 0,
   callers |-> [c \in DbCallers |-> IdleCaller]]

\* Variant: the rejection is rethrown without clearing the cached promise.
afterFailureKeeps(cache) == cache

\* dbConnect, lines 81-85: catch (e) { cached.promise = null; throw e; }

afterFailure(cache) == [cache EXCEPT !.promise = FALSE]

\* dbConnect, lines 60-80, up to the await: return the cached connection, or
\* start an attempt if no promise is cached, and await the cached promise.
DbCall(c) ==
  /\ dbc.callers[c].pc # "await"
  /\ IF cached.conn
     THEN /\ dbc' = [dbc EXCEPT !.callers[c] = [pc |-> "done", waitsOn |-> 0, result |-> "conn"]]
          /\ UNCHANGED cached
     ELSE IF ~cached.promise
          THEN /\ Len(dbc.attempts) < MaxAttempts
               /\ dbc' = [dbc EXCEPT !.attempts = Append(@, "pending"),
                                     !.promiseId = Len(dbc.attempts) + 1,
                                     !.callers[c] = [pc |-> "await",
                                                     waitsOn |-> Len(dbc.attempts) + 1,
                                                     result |-> ""]]
               /\ cached' = [cached EXCEPT !.promise = TRUE]
          ELSE /\ dbc' = [dbc EXCEPT !.callers[c] = [pc |-> "await", waitsOn |-> dbc.promiseId,
                                                     result |-> ""]]
               /\ UNCHANGED cached
  /\ UNCHANGED <<env, docs, nextId, started, faults, req, lastGet, comicGet, dateCall, auth, reader, aux2>>

\* mongoose.connect(...) resolves or rejects.
AttemptSettles ==
  /\ \E a \in DOMAIN dbc.attempts, outcome \in {"resolved", "rejected"} :
       /\ dbc.attempts[a] = "pending"
       /\ dbc' = [dbc EXCEPT !.attempts[a] = outcome]
  /\ UNCHANGED <<env, cached, docs, nextId, started, faults, req, lastGet, comicGet,
                 dateCall, auth, reader, aux2>>

\* dbConnect, lines 78-87: the caller resumes from the await.
DbResume(c) ==
  /\ dbc.callers[c].pc = "await"
  /\ dbc.attempts[dbc.callers[c].waitsOn] # "pending"
  /\ IF dbc.attempts[dbc.callers[c].waitsOn] = "resolved"
     THEN /\ cached' = [cached EXCEPT !.conn = TRUE]
          /\ dbc' = [dbc EXCEPT !.callers[c] = [pc |-> "done", waitsOn |-> 0, result |-> "conn"]]
     ELSE /\ cached' = afterFailure(cached)
          /\ dbc' = [dbc EXCEPT !.promiseId = IF afterFailure(cached).promise THEN @ ELSE 0,
                                !.callers[c] = [pc |-> "done", waitsOn |-> 0, result |-> "error"]]
  /\ UNCHANGED <<env, docs, nextId, started, faults, req, lastGet, comicGet, dateCall, auth, reader, aux2>>

\* The module's top level, lines 41-50, run with global.mongoose being g:
\* cached = global.mongoose || { conn: null, promise: null }.  cached is an
\* object from then on, and no object is falsy, so the body of "if (!cached)",
\* the only assignment to global.mongoose, does not run.
evaluateModule(g) ==
  [cached |-> IF g = Undefined THEN [conn |-> FALSE, promise |-> FALSE] ELSE g,
   global |-> g]

\* Hot reload: the module is evaluated again in the same process, while no
\* call of dbConnect is suspended.  The connections opened so far stay open.
HotReload ==
  /\ dbc.reloads < MaxReloads
  /\ \A c \in DbCallers : dbc.callers[c].pc # "await"
  /\ cached' = evaluateModule(globalMongoose).cached
  /\ globalMongoose' = evaluateModule(globalMongoose).global
  /\ dbc' = [dbc EXCEPT !.reloads = @ + 1,
                        !.promiseId = IF evaluateModule(globalMongoose).cached.promise
                                      THEN @ ELSE 0]
  /\ UNCHANGED <<env, docs, nextId, started, faults, req, lastGet, comicGet,
                 dateCall, auth, reader, compress, calPage, home>>

(* ------------------------- login and the guard -------------------------- *)
\* Variant: a token signed with a validity of one day.
signTokenOneDay(secret, t) == Token(secret, t + MinutesPerDay, TRUE)

\* login, line 31: jwt.sign({ admin: true }, adminPassword, { expiresIn: "7d" })
\* at instant t: iat = t, exp = iat + 7 days.

signToken(secret, t) == Token(secret, t + TokenTTL, TRUE)

\* Variant: any password is accepted once a password is configured.
loginAcceptsAny(password) == ~Falsy(adminPassword)

\* login, line 26: !adminPassword || password !== adminPassword

loginAccepts(password) == ~Falsy(adminPassword) /\ password = adminPassword

\* The passwords a login request may carry; Undefined is a body without one.
Passwords == {"s1", "wrong", "", Undefined}

NoLogin == [called |-> FALSE, body |-> "", password |-> "", status |-> 0, token |-> NoHeader]
NoGuard == [called |-> FALSE, header |-> NoHeader, at |-> 0, result |-> FALSE]
NoAuth == [issued |-> {}, ticks |-> 0, login |-> NoLogin, guard |-> NoGuard]

\* POST /api/auth/login: a body that is not JSON ends in the catch block.
Login ==
  /\ Cardinality(auth.issued) < MaxLogins
  /\ \E body \in {"json", "malformed"}, password \in Passwords :
       LET token == signToken(adminPassword, now)
           answer ==
             IF body = "malformed"
             THEN [called |-> TRUE, body |-> body, password |-> Undefined,
                   status |-> 500, token |-> NoHeader]
             ELSE IF loginAccepts(password)
                  THEN [called |-> TRUE, body |-> body, password |-> password,
                        status |-> 200, token |-> token]
                  ELSE [called |-> TRUE, body |-> body, password |-> password,
                        status |-> 401, token |-> NoHeader]
       IN  auth' = [auth EXCEPT !.login = answer,
                                !.issued = IF answer.status = 200
                                           THEN @ \cup {[iat |-> now, token |-> token]}
                                           ELSE @]
  /\ UNCHANGED <<env, cached, docs, nextId, started, faults, req, lastGet, comicGet, dateCall, reader, dbc, aux2>>

\* Time passes: a minute, or a minute less than the validity of a token.
Tick ==
  /\ auth.ticks < MaxTicks
  /\ \E d \in {1, TokenTTL - 1} : now' = now + d
  /\ auth' = [auth EXCEPT !.ticks = @ + 1]
  /\ UNCHANGED <<serverTz, adminPassword, cached, docs, nextId, started, faults, req,
                 lastGet, comicGet, dateCall, reader, dbc, aux2>>

\* The headers presented to the guard: those of Headers, a token signed with
\* the secret whose payload is { admin: false }, and every token issued.
GuardHeaders ==
  Headers \cup {[Token("s1", now + TokenTTL, TRUE) EXCEPT !.adminIs = FALSE]}
          \cup {i.token : i \in auth.issued}

\* verifyAdminAccess(request), called at the current instant.
Guard ==
  /\ \E h \in GuardHeaders :
       auth' = [auth EXCEPT !.guard = [called |-> TRUE, header |-> h, at |-> now,
                                       result |-> verifyAdminAccess(h)]]
  /\ UNCHANGED <<env, cached, docs, nextId, started, faults, req, lastGet, comicGet, dateCall, reader, dbc, aux2>>

(* --------------------------- date normalization ------------------------- *)
\* POST /api/publish, lines 195-198, and every other reader of a date
\* parameter: getISTDateString(new Date(dateParam)).
normalize(day) == getISTDateString(ParseDateOnly(day))

NoDateCall == [op |-> "", arg |-> 0, result |-> 0, again |-> 0]

\* getISTDateString() with no argument: the date key of the current instant.
GetISTDateString ==
  /\ dateCall' = [op |-> "getISTDateString", arg |-> now,
                  result |-> getISTDateString(now), again |-> 0]
  /\ UNCHANGED <<env, cached, docs, nextId, started, faults, req, lastGet, comicGet, auth, reader, dbc, aux2>>

\* A date parameter is normalized, and the key obtained is normalized again.
Normalize ==
  /\ \E day \in Days :
       dateCall' = [op |-> "normalize", arg |-> day,
                    result |-> normalize(day), again |-> normalize(normalize(day))]
  /\ UNCHANGED <<env, cached, docs, nextId, started, faults, req, lastGet, comicGet, auth, reader, dbc, aux2>>

(* ----------------------------- read endpoints --------------------------- *)
NoRead == [op |-> "", db |-> "", status |-> 0]

\* await dbConnect() in a read endpoint, then its queries: the database is
\* up, or the connection attempt fails, or the connection is there and the
\* queries fail.
DbKinds == {"up", "connectFails", "queryFails"}

ReaderConnects(db) ==
  IF db = "connectFails"
  THEN /\ ~cached.conn
       /\ cached' = [conn |-> FALSE, promise |-> FALSE]
  ELSE cached' = [conn |-> TRUE, promise |-> TRUE]

\* yesterday.setDate(today.getDate() - 1); getISTDateString(yesterday)
yesterdayIST(t) == getISTDateString(t - MinutesPerDay)

\* DailyContent.find({ date: { $lt: todayIST } }): the dates that qualify.
\* (Date keys are compared as strings; for YYYY-MM-DD keys that is the order
\* of the days.)
datesBefore(coll, todayIST) == {d.date : d \in coll} \cap (0..(todayIST - 1))

\* .sort({ date: -1 }) and findOne: the greatest of them.
Latest(dates) == CHOOSE x \in dates : \A y \in dates : y <= x

\* Variant: a failure is answered with an error response.
latestDateCatchError(db, t) ==
  [op |-> "latest-date", db |-> db, status |-> 500, date |-> 0]

\* GET /api/latest-date, lines 41-51 of its file: the catch block.

latestDateCatch(db, t) ==
  [op |-> "latest-date", db |-> db, status |-> 200, date |-> yesterdayIST(t)]

\* GET /api/latest-date
LatestDateGET(db) ==
  LET todayIST == getISTDateString(now)
      before == datesBefore(docs, todayIST)
  IN  IF db # "up" THEN latestDateCatch(db, now)
      ELSE IF before # {}
           THEN [op |-> "latest-date", db |-> db, status |-> 200, date |-> Latest(before)]
           ELSE [op |-> "latest-date", db |-> db, status |-> 200, date |-> yesterdayIST(now)]

LatestDate ==
  /\ \E db \in DbKinds :
       /\ ReaderConnects(db)
       /\ reader' = LatestDateGET(db)
  /\ UNCHANGED <<env, docs, nextId, started, faults, req, lastGet, comicGet, dateCall, auth, dbc, aux2>>

(* ------------------------------- calendar ------------------------------- *)
\* Day 1 of the model is the first of January of BaseYear.
BaseYear == 2025
Years == {BaseYear, BaseYear + 1}

IsLeap(y) == (y % 4 = 0 /\ y % 100 # 0) \/ y % 400 = 0

\* new Date(yearNum, monthNum, 0).getDate()
DaysInMonth(y, m) ==
  CASE m \in {1, 3, 5, 7, 8, 10, 12} -> 31
    [] m \in {4, 6, 9, 11} -> 30
    [] OTHER -> IF IsLeap(y) THEN 29 ELSE 28

\* The number of days from the first of January of BaseYear to the first
\* of month m of year y.
RECURSIVE DaysBefore(_, _)
DaysBefore(y, m) ==
  IF y = BaseYear /\ m = 1 THEN 0
  ELSE IF m = 1 THEN DaysBefore(y - 1, 12) + DaysInMonth(y - 1, 12)
       ELSE DaysBefore(y, m - 1) + DaysInMonth(y, m - 1)

\* `${yearNum}-${month padded}-${day padded}`: the date string of day d of
\* month m of year y, as the number of its day.
dateString(y, m, d) == DaysBefore(y, m) + d

\* getFullYear(), getMonth() + 1 and getDate() of a Date: the fields of its
\* calendar day in the server's own zone.
LocalFields(t) ==
  LET n == LocalDay(t)
      y == CHOOSE y \in Years : DaysBefore(y, 1) < n /\ n <= DaysBefore(y, 12) + 31
      m == CHOOSE m \in 1..12 :
             DaysBefore(y, m) < n /\ n <= DaysBefore(y, m) + DaysInMonth(y, m)
  IN  [year |-> y, month |-> m, day |-> n - DaysBefore(y, m)]

Unavailable(key) == [imageUrl |-> Null, label |-> ToString(key), headline |-> Undefined]

\* GET /api/calendar, lines 90-123: the entry of a day that is not in the
\* future.  A query that fails leaves the day unavailable.
calendarEntry(key, db) ==
  LET normalizedDate == normalize(key)
  IN  IF db = "up" /\ Matching(docs, normalizedDate) # {}
      THEN LET dailyContent == findOne(docs, normalizedDate)
           IN  [imageUrl |-> IF dailyContent.photo.imageBlob \notin {Undefined, Null}
                             THEN "data:image/jpeg;base64," \o dailyContent.photo.imageBlob
                             ELSE Null,
                label |-> IF Falsy(dailyContent.photo.label) THEN ToString(key)
                          ELSE dailyContent.photo.label,
                headline |-> dailyContent.headline]
      ELSE Unavailable(key)

\* GET /api/calendar, lines 74-79
isFuture(y, m, d, cur) ==
  \/ y > cur.year
  \/ (y = cur.year /\ m > cur.month)
  \/ (y = cur.year /\ m = cur.month /\ d > cur.day)

\* GET /api/calendar?year=&month= : q.kind says whether both parameters are
\* there ("missing" if not) and parse as integers ("nan" if not).
CalendarGET(q, db) ==
  IF db = "connectFails"
  THEN [op |-> "calendar", db |-> db, q |-> q, status |-> 500]
  ELSE IF q.kind # "ok" \/ q.month < 1 \/ q.month > 12
       THEN [op |-> "calendar", db |-> db, q |-> q, status |-> 400]
       ELSE LET cur == LocalFields(getISTDate(now))
                keys == {dateString(q.year, q.month, d) : d \in 1..DaysInMonth(q.year, q.month)}
                dayOf(key) == key - DaysBefore(q.year, q.month)
            IN  [op |-> "calendar", db |-> db, q |-> q, status |-> 200,
                 data |-> [key \in keys |->
                            IF isFuture(q.year, q.month, dayOf(key), cur)
                            THEN Unavailable(key)
                            ELSE calendarEntry(key, db)]]

CalendarQueries ==
  [kind : {"ok"}, year : {BaseYear}, month : {0, 2, 3, 13}]
    \cup [kind : {"missing", "nan"}, year : {0}, month : {0}]

Calendar ==
  /\ \E db \in DbKinds, q \in CalendarQueries :
       /\ ReaderConnects(db)
       /\ reader' = CalendarGET(q, db)
  /\ UNCHANGED <<env, docs, nextId, started, faults, req, lastGet, comicGet, dateCall, auth, dbc, aux2>>

\* An Edition as a publish with date parameter day leaves it in the store.
Edition(day) ==
  [contentData([IdleReq EXCEPT !.apiContent = fetchAllContent([a \in Adapters |-> "ok"], 1)])
     EXCEPT !.id = day, !.date = normalize(day), !.headline = "h" \o ToString(day),
            !.photo = [imageBlob |-> compressImage(Up("img", 1)),
                       label |-> "l" \o ToString(day)]]

(* ------------------- publish page: compressImage ----------------------- *)
\* Everything but the state of the pages and of the process across reloads.
backend == <<env, cached, docs, nextId, started, faults, req, lastGet,
             comicGet, dateCall, auth, reader, dbc>>

\* The natural sizes of the images an editor may choose, in pixels.
Widths == {1, 600, 800, 1000, 1280}
Heights == {1, 600, 900, 1024}

\* Assigning to canvas.width or canvas.height converts to an unsigned long:
\* the fraction of a positive number is dropped.
ToUnsignedLong(num, den) == num \div den

\* img.onload: the size given to the canvas for an image of w by h pixels.
\* Only the longer side is compared with its maximum.
canvasSize(w, h) ==
  IF w > h
    THEN IF w > 800
           THEN [width |-> 800, height |-> ToUnsignedLong(h * 800, w)]
           ELSE [width |-> w, height |-> h]
    ELSE IF h > 600
           THEN [width |-> ToUnsignedLong(w * 600, h), height |-> 600]
           ELSE [width |-> w, height |-> h]

\* The server's sharp(...).resize(800, 600, {fit: "inside", withoutEnlargement:
\* true}): the largest size of the same proportions inside 800 by 600, rounded
\* to the nearest pixel, and the input's size when it already fits.
sharpResize(w, h) ==
  IF w <= 800 /\ h <= 600
    THEN [width |-> w, height |-> h]
    ELSE IF w * 600 >= h * 800
           THEN [width |-> 800, height |-> (2 * h * 800 + w) \div (2 * w)]
           ELSE [width |-> (2 * w * 600 + h) \div (2 * h), height |-> 600]

\* canvas.toBlob calls back with null when the canvas has no pixels, and with
\* a JPEG of some size otherwise.
Blobs(canvas) ==
  IF canvas.width = 0 \/ canvas.height = 0 THEN {Null} ELSE {"small", "large"}

\* quality starts at 0.9 and loses 0.1 per retry, in double precision: after
\* eight retries it is 0.10000000000000014, which is not <= 0.1, and after
\* nine it is 1.4e-16. steps counts the retries.
qualityAtFloor(steps) == steps >= 9

\* The test of the toBlob callback: blob && (blob.size <= 100000 || quality <= 0.1).
accepts(blob, steps) ==
  /\ blob # Null
  /\ blob = "small" \/ qualityAtFloor(steps)

NoCompress ==
  [pc |-> "idle", decodable |-> TRUE, width |-> 0, height |-> 0,
   canvas |-> [width |-> 0, height |-> 0], steps |-> 0, blob |-> Null,
   stored |-> [width |-> 0, height |-> 0]]

\* handleFileChange: the editor chooses a file and compressImage sets img.src.
\* The chooser is open again once the previous file has been processed.
ChooseFile ==
  /\ compress.pc \in {"idle", "resolved"}
  /\ \E w \in Widths, h \in Heights, ok \in BOOLEAN :
       compress' = [NoCompress EXCEPT !.pc = "loading", !.decodable = ok,
                                      !.width = w, !.height = h]
  /\ UNCHANGED <<backend, globalMongoose, calPage, home>>

\* img.onload, which only a file the browser can decode fires (there is no
\* img.onerror): size the canvas, draw, and call tryCompress at quality 0.9.
ImageLoads ==
  /\ compress.pc = "loading"
  /\ compress.decodable
  /\ compress' = [compress EXCEPT !.pc = "toBlob",
                                  !.canvas = canvasSize(compress.width, compress.height)]
  /\ UNCHANGED <<backend, globalMongoose, calPage, home>>

\* canvas.toBlob: the browser encodes the canvas and queues the callback.
Encode ==
  /\ compress.pc = "toBlob"
  /\ \E b \in Blobs(compress.canvas) :
       compress' = [compress EXCEPT !.pc = "callback", !.blob = b]
  /\ UNCHANGED <<backend, globalMongoose, calPage, home>>

\* The toBlob callback: resolve with the blob, or lower the quality and call
\* tryCompress again. Past the floor every further retry behaves alike, so
\* the count of retries stops at MaxRetries. stored is the size the server's
\* compressImage gives the resolved file once it is published.
ToBlobCallback ==
  /\ compress.pc = "callback"
  /\ IF accepts(compress.blob, compress.steps)
       THEN compress' = [compress EXCEPT
                           !.pc = "resolved",
                           !.stored = sharpResize(compress.canvas.width, compress.canvas.height)]
       ELSE compress' = [compress EXCEPT
                           !.pc = "toBlob",
                           !.steps = IF @ < MaxRetries THEN @ + 1 ELSE @]
  /\ UNCHANGED <<backend, globalMongoose, calPage, home>>

(* --------------------------- calendar page ----------------------------- *)
\* The days of the month shown, and the image references the server's
\* calendar can carry: data URLs of the photos, equal for equal bytes.
CalDays == 1..NumCalDays
ImageRefs == {"data:a", "data:b"}

\* The page before its first fetch: calendarData is null (hasData is false).
\* clientDay is the day of the month of the browser's clock, fired the days
\* whose rendered image has fired load or error.
NoCalPage ==
  [pc |-> "idle", hasData |-> FALSE, data |-> [d \in CalDays |-> Null],
   clientDay |-> 0, fired |-> {}, loadedImages |-> {},
   loading |-> FALSE, imagesLoaded |-> FALSE]

\* Object.values(data).map(day => day.imageUrl).filter(Boolean).length: one
\* element per day that has an image, equal references included.
imageUrlsLength(data) == Cardinality({d \in CalDays : data[d] # Null})

\* renderCalendarGrid: the days whose <Image> is rendered, those with an
\* image that the browser's clock does not take for future days.
Rendered(p) == {d \in CalDays : p.data[d] # Null /\ ~(d > p.clientDay)}

\* The effect on [loadedImages, calendarData], lines 326-338.
checkImagesLoaded(p) ==
  IF ~p.hasData THEN p
  ELSE IF imageUrlsLength(p.data) = 0 THEN [p EXCEPT !.imagesLoaded = TRUE]
  ELSE IF Cardinality(p.loadedImages) = imageUrlsLength(p.data)
       THEN [p EXCEPT !.imagesLoaded = TRUE]
       ELSE p

\* fetchCalendarData up to its await: the states are reset and the request
\* leaves; the effect runs on the new loadedImages.
CalFetchStarts ==
  /\ calPage.pc \in {"idle", "shown", "failed"}
  /\ \E today \in 0..NumCalDays :
       calPage' = checkImagesLoaded(
                    [calPage EXCEPT !.pc = "fetching", !.clientDay = today,
                                    !.loading = TRUE, !.imagesLoaded = FALSE,
                                    !.loadedImages = {}])
  /\ UNCHANGED <<backend, compress, globalMongoose, home>>

\* fetchCalendarData after its await: the month's data arrives and is
\* rendered, or the request fails.
CalFetchSettles ==
  /\ calPage.pc = "fetching"
  /\ \/ \E data \in [CalDays -> ImageRefs \cup {Null}] :
          calPage' = checkImagesLoaded(
                       [calPage EXCEPT !.pc = "shown", !.hasData = TRUE,
                                       !.data = data, !.fired = {},
                                       !.imagesLoaded = (imageUrlsLength(data) = 0) \/ @,
                                       !.loading = FALSE])
     \/ calPage' = [calPage EXCEPT !.pc = "failed", !.loading = FALSE]
  /\ UNCHANGED <<backend, compress, globalMongoose, home>>

\* onLoad or onError of the image of day d: handleImageLoad adds its
\* reference to the set loadedImages, and the effect runs.
CalImageSettles(d) ==
  /\ calPage.pc = "shown"
  /\ d \in Rendered(calPage) \ calPage.fired
  /\ calPage' = checkImagesLoaded(
                  [calPage EXCEPT !.fired = @ \cup {d},
                                  !.loadedImages = @ \cup {calPage.data[d]}])
  /\ UNCHANGED <<backend, compress, globalMongoose, home>>

(* ----------------------------- home page ------------------------------- *)
\* The page before it is mounted.  selectedDate is the IST date string of
\* the selected date, dailyData the date whose answer is displayed (0 while
\* it is null), fetches the calls of fetchDailyData in the order they left.
NoHome == [selectedDate |-> 0, dailyData |-> 0, loading |-> FALSE, fetches |-> <<>>]

\* The effect on [selectedDate, isClient, isMobile], on mount and whenever
\* the date picker sets a date: setLoading(true) and fetchDailyData(dateString)
\* leaves.  The effect returns no cleanup, so earlier fetches stay in flight.
HomeSelectsDate(d) ==
  /\ Len(home.fetches) < MaxFetches
  /\ home' = [home EXCEPT !.selectedDate = d, !.loading = TRUE,
                          !.fetches = Append(@, [date |-> d, state |-> "pending"])]
  /\ UNCHANGED <<backend, compress, globalMongoose, calPage>>

\* fetchDailyData(...).then(setDailyData).catch(console.error)
\*   .finally(() => setLoading(false)) for the i-th fetch, whose answer
\* arrives (ok) or which fails.
HomeFetchSettles(i) ==
  /\ i \in DOMAIN home.fetches
  /\ home.fetches[i].state = "pending"
  /\ \E ok \in BOOLEAN :
       home' = [home EXCEPT
                  !.dailyData = IF ok THEN home.fetches[i].date ELSE @,
                  !.loading = FALSE,
                  !.fetches[i].state = IF ok THEN "ok" ELSE "failed"]
  /\ UNCHANGED <<backend, compress, globalMongoose, calPage>>

(* ------------------------------ daily GET ------------------------------- *)
\* The read endpoints over the stores left by publishes for any of the days
\* PublishedDays, around the middle of February of BaseYear.
ReadDay == dateString(BaseYear, 2, 15)
PublishedDays == {ReadDay - 5, ReadDay - 1, ReadDay, ReadDay + 1, ReadDay + 14}

\* The document as the daily GET answers it: the photo's bytes become a
\* data URL.
responseData(dailyContent) ==
  [dailyContent EXCEPT
     !.photo = [imageUrl |-> IF dailyContent.photo.imageBlob \notin {Undefined, Null}
                             THEN "data:image/jpeg;base64," \o dailyContent.photo.imageBlob
                             ELSE "/photo.jpg",
                label |-> IF Falsy(dailyContent.photo.label) THEN ""
                          ELSE dailyContent.photo.label]]

\* Variant: the lookup uses the date parameter as it came.
dailyGETRawDate(dateParam, db) ==
  IF db = "connectFails"
  THEN [op |-> "daily", db |-> db, dateParam |-> dateParam, status |-> 500, found |-> FALSE, body |-> [id |-> 0]]
  ELSE IF dateParam = 0
       THEN [op |-> "daily", db |-> db, dateParam |-> dateParam, status |-> 400, found |-> FALSE, body |-> [id |-> 0]]
       ELSE IF db = "queryFails"
            THEN [op |-> "daily", db |-> db, dateParam |-> dateParam, status |-> 500, found |-> FALSE, body |-> [id |-> 0]]
            ELSE [op |-> "daily", db |-> db, dateParam |-> dateParam, status |-> 200,
                  found |-> Matching(docs, dateParam) # {},
                  body |-> IF Matching(docs, dateParam) # {}
                           THEN responseData(findOne(docs, dateParam)) ELSE [id |-> 0]]

\* GET /api/daily?date= : dateParam is a day, or 0 when the parameter is
\* missing.  The date is normalized as publish normalizes it; the answer is
\* the document found, or null (found is false).
dailyGET(dateParam, db) ==
  IF db = "connectFails"
  THEN [op |-> "daily", db |-> db, dateParam |-> dateParam, status |-> 500, found |-> FALSE, body |-> [id |-> 0]]
  ELSE IF dateParam = 0
       THEN [op |-> "daily", db |-> db, dateParam |-> dateParam, status |-> 400, found |-> FALSE, body |-> [id |-> 0]]
       ELSE IF db = "queryFails"
            THEN [op |-> "daily", db |-> db, dateParam |-> dateParam, status |-> 500, found |-> FALSE, body |-> [id |-> 0]]
            ELSE LET date == getISTDateString(ParseDateOnly(dateParam))
                 IN  [op |-> "daily", db |-> db, dateParam |-> dateParam, status |-> 200,
                      found |-> Matching(docs, date) # {},
                      body |-> IF Matching(docs, date) # {}
                               THEN responseData(findOne(docs, date)) ELSE [id |-> 0]]

\* The dates asked for: the published days and their neighbours.
Daily ==
  /\ \E db \in DbKinds, dateParam \in {0} \cup PublishedDays \cup {ReadDay - 2} :
       /\ ReaderConnects(db)
       /\ reader' = dailyGET(dateParam, db)
  /\ UNCHANGED <<env, docs, nextId, started, faults, req, lastGet, comicGet, dateCall, auth, dbc, aux2>>

(* ---------------------------- specifications ---------------------------- *)
InitAux ==
  /\ comicGet = NoComicGet
  /\ dateCall = NoDateCall
  /\ auth = NoAuth
  /\ reader = NoRead
  /\ dbc = NoDbc
  /\ compress = NoCompress
  /\ globalMongoose = Undefined
  /\ calPage = NoCalPage
  /\ home = NoHome

\* The store and the requests before anything has happened.
InitRest ==
  /\ cached = [conn |-> FALSE, promise |-> FALSE]
  /\ docs = {}
  /\ nextId = 1
  /\ started = 0
  /\ faults = 0
  /\ req = [r \in Reqs |-> IdleReq]
  /\ lastGet = NoGet
  /\ InitAux

Init ==
  /\ serverTz = 0
  /\ now = ParseDateOnly(NumDates) + 12 * 60
  /\ adminPassword \in {"s1", Undefined}
  /\ InitRest

\* Publish requests handled concurrently.
Next ==
  \E r \in Reqs :
    \/ Receive(r)
    \/ Authenticate(r)
    \/ Connect(r)
    \/ Parse(r)
    \/ Fetch(r)
    \/ ResolvePhoto(r)
    \/ FindExisting(r)
    \/ Persist(r)

Spec == Init /\ [][Next]_vars

\* Publish requests handled one after the other.
NextSeq ==
  \E r \in Reqs :
    \/ ReceiveAlone(r)
    \/ Authenticate(r)
    \/ Connect(r)
    \/ Parse(r)
    \/ Fetch(r)
    \/ ResolvePhoto(r)
    \/ FindExisting(r)
    \/ Persist(r)

SpecSeq == Init /\ [][NextSeq]_vars

\* The adapter endpoints on their own.
SpecAdapters == Init /\ [][AdapterGet]_vars

\* The date functions on their own: a server in any of the zones Offsets, at
\* any of the instants Instants.
InitDates ==
  /\ serverTz \in Offsets
  /\ now \in Instants
  /\ adminPassword = "s1"
  /\ InitRest

NextDates == GetISTDateString \/ Normalize

SpecDates == InitDates /\ [][NextDates]_vars

\* dbConnect called by concurrent requests.
NextConnect == AttemptSettles \/ \E c \in DbCallers : DbCall(c) \/ DbResume(c)

SpecConnect == Init /\ [][NextConnect]_vars

\* dbConnect in a development server that reloads the module.
NextReload == NextConnect \/ HotReload

SpecReload == Init /\ [][NextReload]_vars

\* Login, the guard and the clock.
NextAuth == Login \/ Tick \/ Guard

SpecAuth == Init /\ [][NextAuth]_vars

InitReaders ==
  /\ serverTz \in Offsets
  /\ now \in {ParseDateOnly(ReadDay) + m : m \in TimesOfDay}
  /\ adminPassword = "s1"
  /\ cached = [conn |-> FALSE, promise |-> FALSE]
  /\ docs \in {{Edition(day) : day \in S} : S \in SUBSET PublishedDays}
  /\ nextId = 1 /\ started = 0 /\ faults = 0
  /\ req = [r \in Reqs |-> IdleReq]
  /\ lastGet = NoGet
  /\ InitAux

NextReaders == LatestDate \/ Calendar \/ Daily

SpecReaders == InitReaders /\ [][NextReaders]_vars

\* The comic adapter on its own, over every page of up to MaxEntries entries.
SpecComic == Init /\ [][ComicGet]_vars

\* The publish page compressing the photos an editor chooses.
NextCompress == ChooseFile \/ ImageLoads \/ Encode \/ ToBlobCallback

SpecCompress == Init /\ [][NextCompress]_vars

\* The browser runs every event handler and callback that is due.
SpecCompressFair ==
  /\ SpecCompress
  /\ WF_vars(ImageLoads) /\ WF_vars(Encode) /\ WF_vars(ToBlobCallback)

\* The calendar page.
NextCalPage == CalFetchStarts \/ CalFetchSettles \/ \E d \in CalDays : CalImageSettles(d)

SpecCalPage == Init /\ [][NextCalPage]_vars

\* The home page.
NextHome ==
  \/ \E d \in Days : HomeSelectsDate(d)
  \/ \E i \in 1..MaxFetches : HomeFetchSettles(i)

SpecHome == Init /\ [][NextHome]_vars

TypeOK ==
  /\ \A r \in Reqs : req[r].pc \in {"idle", "auth", "connect", "parse", "fetch", "photo", "find", "write", "done"}
  /\ started \in 0..MaxPublishes
  /\ faults \in 0..MaxFaults

(* ------------------------------- claims --------------------------------- *)
\* Request r leaves position pc in this step.
Leaves(r, pc) == req[r].pc = pc /\ req'[r].pc # pc

Ids(coll) == {d.id : d \in coll}

OnePerDate(coll) == \A d1, d2 \in coll : d1.date = d2.date => d1 = d2

\* C1: publishes handled one after the other leave at most one Edition per
\* date, and a publish for a date that already has an Edition updates that
\* document (same _id, "Content updated") instead of inserting another one.
C1_OneEditionPerDate ==
  [][ /\ OnePerDate(docs')
      /\ \A r \in Reqs :
           (Leaves(r, "write") /\ Matching(docs, req[r].date) # {})
             => /\ req'[r].message = "Content updated"
                /\ Ids(docs') = Ids(docs)
                /\ Cardinality(docs') = Cardinality(docs) ]_vars

\* Three publishes, two dates: the third one updated an Edition.
C1_Witness ==
  /\ \E r \in Reqs : req[r].pc = "done" /\ req[r].message = "Content updated"
  /\ Cardinality(docs) = 2 /\ OnePerDate(docs)

\* C2: under any interleaving of concurrent publish requests the store never
\* holds two Editions for one date.
C2_NoDuplicateUnderConcurrency ==
  \A date \in 0..NumDates : Cardinality(Matching(docs, date)) <= 1

\* Two requests raced to insert the same date and the index refused the loser.
C2_Witness ==
  /\ \E r \in Reqs : req[r].pc = "done" /\ req[r].err = "DuplicateKey"
  /\ Cardinality(docs) = 1

\* C3: every Edition in the store has photo bytes.
C3_PhotoBytesPresent == \A d \in docs : RequiredBuffer(d.photo.imageBlob)

\* C4: a valid publish without a photo for a date that has no Edition is
\* answered 400 and leaves the store as it was.
C4_NoPhotoFirstPublishRejected ==
  [][ \A r \in Reqs :
        (Leaves(r, "photo") /\ req[r].photoFile = NoFile
           /\ Matching(docs, req[r].date) = {})
          => /\ req'[r].pc = "done" /\ req'[r].status = 400
             /\ req'[r].message = "Photo is required for new content"
             /\ docs' = docs ]_vars

C4_Witness ==
  /\ \E r \in Reqs :
       /\ req[r].pc = "done" /\ req[r].status = 400
       /\ req[r].message = "Photo is required for new content"
  /\ docs = {}

\* C5: a publish without a photo for a date that has an Edition is not
\* rejected, succeeds, and leaves the Edition's photo bytes as they were.
C5_NoPhotoRepublishKeepsBytes ==
  [][ \A r \in Reqs :
        /\ (Leaves(r, "photo") /\ req[r].photoFile = NoFile
              /\ Matching(docs, req[r].date) # {})
             => req'[r].pc = "find"
        /\ (Leaves(r, "write") /\ req[r].photoFile = NoFile)
             => /\ req'[r].status = 200
                /\ Matching(docs, req[r].date) # {}
                /\ Matching(docs', req[r].date) # {}
                /\ findOne(docs', req[r].date).photo.imageBlob
                     = findOne(docs, req[r].date).photo.imageBlob ]_vars

\* An Edition that carries the headline of a later publish and the photo
\* of an earlier one.
C5_Witness ==
  /\ \E r \in Reqs : req[r].pc = "done" /\ req[r].message = "Content updated"
  /\ \E d \in docs : \E n1, n2 \in 1..MaxPublishes :
       /\ n1 < n2
       /\ d.headline = Up("h", n2)
       /\ d.photo.imageBlob = compressImage(Up("img", n1))

\* The six adapter fields the publish stores as they were fetched.
StoredAsFetched(d, q) ==
  /\ d.headline = q.headline /\ d.photo.label = q.label
  /\ d.poem = q.apiContent["poem"] /\ d.joke = q.apiContent["joke"]
  /\ d.activity = q.apiContent["activity"] /\ d.catFact = q.apiContent["catFact"]
  /\ d.dogFact = q.apiContent["dogFact"] /\ d.triviaFact = q.apiContent["triviaFact"]

Republished(r) ==
  /\ Leaves(r, "write") /\ req'[r].status = 200
  /\ Matching(docs, req[r].date) # {}

\* C6 as stated: after a successful re-publish the stored headline, label and
\* all seven adapter fields equal the values supplied and fetched by it.
C6_Original ==
  [][ \A r \in Reqs :
        Republished(r)
          => /\ Matching(docs', req[r].date) # {}
             /\ StoredAsFetched(findOne(docs', req[r].date), req[r])
             /\ findOne(docs', req[r].date).comic = req[r].apiContent["comic"] ]_vars

\* C6 as amended: the same, except that the comic is stored with an absent
\* imageUrl replaced by "" and an absent altText by "Unable to load comic".
C6_Amended ==
  [][ \A r \in Reqs :
        Republished(r)
          => /\ Matching(docs', req[r].date) # {}
             /\ StoredAsFetched(findOne(docs', req[r].date), req[r])
             /\ LET stored == findOne(docs', req[r].date).comic
                    got == req[r].apiContent["comic"]
                IN  /\ stored.imageUrl = (IF got.imageUrl \in {Null, Undefined, ""} THEN "" ELSE got.imageUrl)
                    /\ stored.altText = (IF got.altText \in {Null, Undefined, ""}
                                         THEN "Unable to load comic" ELSE got.altText) ]_vars

\* An Edition published twice, the second time with its own content.
C6_Witness ==
  /\ \E r \in Reqs : req[r].pc = "done" /\ req[r].message = "Content updated"
  /\ \E d \in docs : \E n \in 2..MaxPublishes :
       /\ d.headline = Up("h", n) /\ d.catFact.fact = Up("cat", n)
       /\ d.comic.imageUrl = ""

\* A credential the guard is meant to accept: signed with the configured
\* secret, not expired, asserting the administrator role.
CredentialOK(h) ==
  /\ h.scheme = "Bearer" /\ h.wellFormed
  /\ adminPassword # Undefined /\ h.secret = adminPassword
  /\ h.exp > now /\ h.hasAdmin

\* C7: a publish request without a valid credential is answered 401 and has
\* done nothing: no adapter called, no store read or write, store and
\* connection cache unchanged.
C7_UnauthorizedDoesNothing ==
  [][ \A r \in Reqs :
        (Leaves(r, "auth") /\ ~CredentialOK(req[r].authHeader))
          => /\ req'[r].pc = "done" /\ req'[r].status = 401
             /\ ~req'[r].fetched /\ req'[r].dbReads = 0 /\ req'[r].dbWrites = 0
             /\ docs' = docs /\ cached' = cached ]_vars

C7_Witness ==
  \E r \in Reqs :
    /\ req[r].pc = "done" /\ req[r].status = 401
    /\ ~req[r].fetched /\ req[r].dbReads = 0

\* C8 as stated: no publish that ends in a validation rejection (400) has
\* called an adapter.
C8_Original ==
  \A r \in Reqs : (req[r].pc = "done" /\ req[r].status = 400) => ~req[r].fetched

\* C8 as amended: a request with a missing headline or label is rejected
\* before any adapter is called (the adapters are only ever called for a
\* request whose headline and label are present); the rejection for a missing
\* photo comes after the adapters have been called.
C8_Amended ==
  \A r \in Reqs :
    /\ req[r].message = "Missing required fields" => ~req[r].fetched
    /\ (req[r].fetched /\ InFlight(r)) => (req[r].headline # "" /\ req[r].label # "")
    /\ req[r].message = "Photo is required for new content" => req[r].fetched

C8_Witness ==
  \E r \in Reqs :
    /\ req[r].pc = "done" /\ req[r].status = 400
    /\ req[r].message = "Photo is required for new content"
    /\ req[r].fetched

\* C9: a valid publish that carries a (decodable) photo succeeds and
\* persists the Edition whichever adapters failed.
C9_AdapterFailureNeverFailsPublish ==
  [][ \A r \in Reqs :
        (Leaves(r, "write") /\ Decodable(req[r].photoFile))
          => /\ req'[r].status = 200
             /\ Matching(docs', req[r].date) # {} ]_vars

\* C10: an adapter whose upstream source is unreachable, answers non-2xx or
\* answers 2xx with a malformed payload returns exactly its fallback.
C10_AdapterFallback ==
  lastGet.upstream \in FaultKinds => lastGet.body = Fallback(lastGet.adapter)

\* The positions of the page's image entries (JSON objects of type
\* ImageObject that carry a URL) dated day.
ImagesDated(page, day) ==
  { i \in DOMAIN page :
      /\ page[i].json = "object" /\ page[i].type = "ImageObject"
      /\ page[i].contentUrl \notin {Undefined, Null, ""}
      /\ page[i].datePublished = day }

\* C11: whatever the entries of the page and their order, the comic adapter
\* answers with the URL of an image entry dated today if there is one, else
\* with that of an image entry dated yesterday if there is one, else with
\* the fallback.
C11_ComicEntrySelection ==
  comicGet.called =>
    LET page == comicGet.page
        today == ImagesDated(page, LocalDay(now))
        yesterday == ImagesDated(page, LocalDay(now) - 1)
    IN  IF today # {}
        THEN /\ comicGet.status = 200
             /\ \E i \in today : comicGet.body.imageUrl = page[i].contentUrl
        ELSE IF yesterday # {}
             THEN /\ comicGet.status = 200
                  /\ \E i \in yesterday : comicGet.body.imageUrl = page[i].contentUrl
             ELSE comicGet.body = ComicFallback

\* A page with a script that does not parse, then yesterday's comic, then
\* today's: the answer is today's.
C11_Witness ==
  /\ comicGet.called
  /\ Len(comicGet.page) = 3
  /\ comicGet.page[1].json = "invalid"
  /\ comicGet.page[2].contentUrl = "y1"
  /\ comicGet.page[3].contentUrl = "t1"
  /\ comicGet.body.imageUrl = "t1"

\* The calendar day of instant t as observed at UTC+5:30.
ISTDay(t) == (t + ISTOffset) \div MinutesPerDay

\* C12: in whatever zone the server runs and at whatever instant,
\* getISTDateString gives the calendar date of the instant at UTC+5:30.
C12_ISTDateOfInstant ==
  dateCall.op = "getISTDateString" => dateCall.result = ISTDay(dateCall.arg)

\* C13: normalizing a normalized date leaves it as it is.
C13_NormalizeIdempotent ==
  dateCall.op = "normalize" => dateCall.again = dateCall.result

\* C14: a token issued by a login is accepted by the guard at every instant
\* before seven days have passed since it was issued, and rejected at every
\* instant from then on.
C14_TokenValidityWindow ==
  \A i \in auth.issued :
    (auth.guard.called /\ auth.guard.header = i.token)
      => (auth.guard.result <=> auth.guard.at < i.iat + TokenTTL)

\* The guard rejects a token exactly seven days after its login.
C14_Witness ==
  \E i \in auth.issued :
    /\ auth.guard.called /\ auth.guard.header = i.token
    /\ auth.guard.at = i.iat + TokenTTL
    /\ ~auth.guard.result

\* A token signed with the configured secret, not expired at instant t,
\* whose payload asserts the administrator role.
AssertsAdmin(h, t) ==
  /\ h.scheme = "Bearer" /\ h.wellFormed
  /\ adminPassword \notin {Undefined, Null, ""} /\ h.secret = adminPassword
  /\ t < h.exp
  /\ h.hasAdmin /\ h.adminIs

\* C15: the guard returns true only for a token signed with the server's
\* secret that is not expired and asserts the administrator role, and false
\* for every other header.
C15_GuardAcceptsOnlyAdmin ==
  auth.guard.called
    => (auth.guard.result <=> AssertsAdmin(auth.guard.header, auth.guard.at))

\* C16: login issues a token if and only if the password presented equals
\* the configured administrator password; a wrong password, and any password
\* when none is configured, is answered 401 without a token.
C16_LoginIffPassword ==
  LET l == auth.login
      right == adminPassword \notin {Undefined, Null, ""} /\ l.password = adminPassword
  IN  (l.called /\ l.body = "json")
        => /\ (l.status = 200 /\ l.token # NoHeader /\ l.token.wellFormed) <=> right
           /\ ~right => (l.status = 401 /\ l.token = NoHeader)
           /\ \A i \in auth.issued : adminPassword = "s1" /\ i.token.secret = "s1"

\* A login with a wrong password was refused after one with the right
\* password had been given a token.
C16_Witness ==
  /\ auth.login.called /\ auth.login.password = "wrong" /\ auth.login.status = 401
  /\ auth.issued # {}

\* C17: getLatestAvailable returns the greatest Edition date strictly
\* earlier than today's IST date if there is one and yesterday's IST date
\* otherwise, and never today's date or a later one.
C17_LatestStrictlyBeforeToday ==
  (reader.op = "latest-date" /\ reader.db = "up")
    => LET today == ISTDay(now)
           earlier == {d.date : d \in docs} \cap (0..(today - 1))
       IN  /\ reader.date < today
           /\ earlier # {} => (reader.date \in earlier /\ \A x \in earlier : x <= reader.date)
           /\ earlier = {} => reader.date = today - 1

DaysOfMonth(y, m) == (DaysBefore(y, m) + 1)..(DaysBefore(y, m) + DaysInMonth(y, m))

\* C19: for a valid year and month the calendar has exactly one entry for
\* every day of the month; an entry carries an image exactly if an Edition
\* exists for its date and the date is not after today's IST date.
C19_CalendarMonth ==
  (reader.op = "calendar" /\ reader.db = "up" /\ reader.status = 200)
    => /\ DOMAIN reader.data = DaysOfMonth(reader.q.year, reader.q.month)
       /\ \A key \in DOMAIN reader.data :
            (reader.data[key].imageUrl # Null)
              <=> (Matching(docs, key) # {} /\ key <= ISTDay(now))

\* C20: a caller that resumes from a failed connection attempt clears the
\* cached attempt, and a dbConnect call made when no connection is cached
\* and no caller is still awaiting starts a fresh attempt; a later call can
\* then succeed.
C20_FailedAttemptIsCleared ==
  [][ \A c \in DbCallers :
        /\ (dbc.callers[c].pc = "await" /\ dbc'.callers[c].result = "error")
             => (~cached'.promise /\ dbc'.promiseId = 0)
        /\ (/\ dbc.callers[c].pc # "await" /\ dbc'.callers[c] # dbc.callers[c]
            /\ ~cached.conn
            /\ \A k \in DbCallers : dbc.callers[k].pc # "await")
             => /\ Len(dbc'.attempts) = Len(dbc.attempts) + 1
                /\ dbc'.attempts[Len(dbc'.attempts)] = "pending"
                /\ dbc'.callers[c].waitsOn = Len(dbc'.attempts) ]_vars

\* The first attempt failed, a second one was started and gave a connection.
C20_Witness ==
  /\ Len(dbc.attempts) = 2
  /\ dbc.attempts[1] = "rejected" /\ dbc.attempts[2] = "resolved"
  /\ cached.conn
  /\ \E c1, c2 \in DbCallers :
       dbc.callers[c1].result = "error" /\ dbc.callers[c2].result = "conn"

\* C21: image compression lowers the quality step by step and always
\* terminates: once the image is on the canvas and the first encode has been
\* asked for, the compression resolves, with the first blob within 100 KB or
\* with the blob encoded at the quality floor.
C21_CompressionTerminates ==
  (compress.pc = "toBlob") ~> (compress.pc = "resolved")

\* C24: for every input width and height the compressed image is at most 800
\* wide and 600 high, is no larger than the input in either dimension, and
\* keeps the input's proportions to within the pixel lost by truncation.
C24_DimensionsBounded ==
  compress.pc \in {"toBlob", "callback", "resolved"} =>
    LET c == compress.canvas
        w == compress.width
        h == compress.height
    IN /\ c.width <= 800 /\ c.height <= 600
       /\ c.width <= w /\ c.height <= h
       /\ c.width * h - c.height * w < (IF w > h THEN w ELSE h)
       /\ c.height * w - c.width * h < (IF w > h THEN w ELSE h)

Follows(from, to) ==
  \/ from = to
  \/ from \in {"idle", "done"} /\ to = "auth"
  \/ from = "auth" /\ to \in {"connect", "done"}
  \/ from = "connect" /\ to \in {"parse", "done"}
  \/ from = "parse" /\ to \in {"fetch", "done"}
  \/ from = "fetch" /\ to = "photo"
  \/ from = "photo" /\ to \in {"find", "done"}
  \/ from = "find" /\ to = "write"
  \/ from = "write" /\ to = "done"

\* What a request at each position has behind it.
PassedThrough(q) ==
  /\ q.pc \in {"connect", "parse", "fetch", "photo", "find", "write"}
       => verifyAdminAccess(q.authHeader)
  /\ q.pc \in {"fetch", "photo", "find", "write"}
       => q.date \in {getISTDateString(ParseDateOnly(d)) : d \in Days} \cup {getISTDateString(now)}
          /\ ~Falsy(q.headline) /\ ~Falsy(q.label)
  /\ q.pc \in {"photo", "find", "write"} => q.apiContent # NoContent
  /\ q.pc \in {"find", "write"} => q.photoBlob # Undefined

\* C23: a publish request passes authentication, date resolution, field
\* validation, content aggregation, photo resolution and persistence in that
\* order without skipping one; the store changes only in the step that
\* persists, and a request answered 401, 400 or 500 leaves it as it was.
C23_PublishStepsInOrder ==
  [][ \A r \in Reqs :
        /\ Follows(req[r].pc, req'[r].pc)
        /\ PassedThrough(req'[r])
        /\ docs' # docs => \E w \in Reqs : Leaves(w, "write") /\ req'[w].status = 200
        /\ (req'[r].pc = "done" /\ req[r].pc # "done")
             => /\ req'[r].status \in {200, 400, 401, 500}
                /\ req'[r].status # 200 => docs' = docs
                /\ req'[r].status = 200 => req[r].pc = "write" ]_vars

\* One request has been rejected for its missing photo after the adapters
\* were called, another has been persisted, and the store holds one Edition.
C23_Witness ==
  \E r, w \in Reqs :
    /\ req[r].pc = "done" /\ req[r].status = 400 /\ req[r].fetched
    /\ req[w].pc = "done" /\ req[w].status = 200 /\ req[w].dbWrites = 1
    /\ Cardinality(docs) = 1

\* C25: the connection cache outlives a re-evaluation of the module: once
\* dbConnect has returned a connection, no call of dbConnect opens another,
\* whether or not the module was reloaded in between.
C25_ConnectionSurvivesReload ==
  [][ (\E c \in DbCallers : dbc.callers[c].result = "conn")
        => Len(dbc'.attempts) = Len(dbc.attempts) ]_vars

\* The connection attempts that have not settled.
InFlightAttempts(d) == {a \in DOMAIN d.attempts : d.attempts[a] = "pending"}

\* C26: under any interleaving of concurrent calls of dbConnect at most one
\* connection attempt is in flight, and once a connection is established no
\* further attempt is started.
C26_AtMostOneAttemptInFlight ==
  [][ /\ Cardinality(InFlightAttempts(dbc')) <= 1
      /\ cached.conn => Len(dbc'.attempts) = Len(dbc.attempts) ]_vars

\* C27: publish requests that reach the write with a photo and with content
\* the schema accepts all succeed, also when they run concurrently for one
\* date that has no Edition yet: none ends in an error because of another.
C27_ConcurrentPublishesBothSucceed ==
  [][ \A r \in Reqs :
        (/\ Leaves(r, "write")
         /\ req[r].photoFile # NoFile
         /\ Validates(contentData(req[r])))
          => req'[r].status = 200 ]_vars

\* C28: after a successful publish with date D the daily lookup of D returns
\* that Edition (found is false when the answer is null), and the calendar of D's month shows D with that Edition's
\* headline and image when D is not after today's IST date.
C28_PublishDailyCalendarAgree ==
  /\ (reader.op = "daily" /\ reader.db = "up" /\ reader.dateParam # 0
       /\ Edition(reader.dateParam) \in docs)
        => /\ reader.status = 200 /\ reader.found
           /\ reader.body = responseData(Edition(reader.dateParam))
  /\ (reader.op = "calendar" /\ reader.db = "up" /\ reader.status = 200)
        => \A D \in DOMAIN reader.data :
             (Edition(D) \in docs /\ D <= ISTDay(now))
               => /\ reader.data[D].headline = Edition(D).headline
                  /\ reader.data[D].imageUrl # Null

\* On a server east of India, where the store key of a date is the day
\* before it, the Edition published for today has been looked up.
C28_Witness ==
  /\ serverTz > ISTOffset
  /\ reader.op = "daily" /\ reader.db = "up"
  /\ reader.dateParam = ISTDay(now)
  /\ Edition(reader.dateParam) \in docs
  /\ reader.found /\ reader.body.date # reader.dateParam

\* C29: once the calendar data has arrived and every image the page renders
\* has fired load or error, imagesLoaded is true, whatever image references
\* the server returned.
C29_OverlayDisappears ==
  (calPage.pc = "shown" /\ calPage.fired = Rendered(calPage))
    => calPage.imagesLoaded

\* C30: when the selected date changed while an earlier fetch was in flight,
\* then once every fetch has settled with its answer, in whatever order the
\* answers arrived, the edition displayed is the one of the selected date.
C30_DisplayedEditionIsSelected ==
  (/\ home.fetches # <<>>
   /\ \A i \in DOMAIN home.fetches : home.fetches[i].state = "ok")
    => home.dailyData = home.selectedDate

====
